---- MODULE Spec2Model ----
(***************************************************************************)
(* Model of templates/nfed/src/main.c: the blinky sample.  The file holds  *)
(* two mutually exclusive main() functions selected by the preprocessor:   *)
(*   Variant A (CONFIG_BOARD_CIRCUITDOJO_FEATHER_NRF9151): led_on/led_off  *)
(*     on channel 2 of the nPM1300 LED controller, results discarded;      *)
(*   Variant B (#else): gpio_is_ready_dt, gpio_pin_configure_dt, then a    *)
(*     loop of gpio_pin_toggle_dt / k_msleep that returns on a negative    *)
(*     status.                                                             *)
(* The device layer (LED controller, GPIO port, kernel sleep) is the       *)
(* environment: each call returns a status drawn from StatusCodes and      *)
(* drives the pin as its Zephyr contract says (0 = done, negative errno =  *)
(* nothing done).  Every call main makes is appended to `log`, a recorder  *)
(* of finite capacity MaxLog: the program keeps running once the recorder  *)
(* is full, only the recording stops.  Simulated time is the sum of the    *)
(* recorded sleeps.  The startup print (LOG_INF / printk) is not a device  *)
(* call and is not recorded.                                               *)
(***************************************************************************)
EXTENDS Integers, Sequences, FiniteSets

VARIABLES variant, pc, ret, dev_ready, level, levels, log

vars == <<variant, pc, ret, dev_ready, level, levels, log>>

\* Capacity of the call recorder.
MaxLog == 10

\* #define SLEEP_TIME_MS 1000
SLEEP_TIME_MS_Slow == 1000 + 500
SLEEP_TIME_MS == 1000

\* The channel literal of led_on(leds, 2U) / led_off(leds, 2U).
LED_CHANNEL == 2

\* GPIO_OUTPUT_ACTIVE: output, initialised to the logical level "active".
ACTIVE == TRUE
INACTIVE == FALSE
GPIO_OUTPUT_INACTIVE == INACTIVE
GPIO_OUTPUT_ACTIVE == ACTIVE

\* Status codes the device layer hands back: 0, -EIO, -EINVAL.
StatusCodes == {-22, -5, 0}

\* The test of `if (ret < 0)`.
NonPositive(r) == r <= 0
Negative(r) == r < 0

\* What a successful gpio_pin_toggle_dt does to the logical level.
KeepLevel(l) == l
ToggledLevel(l) == ~l

Entry(op, arg, res, pin) == [op |-> op, arg |-> arg, res |-> res, pin |-> pin]

Recording == Len(log) < MaxLog

\* The recorder: a call is appended while there is room.
Record(e) == log' = IF Recording THEN Append(log, e) ELSE log

\* The pin recorder: every level the output is driven to.
RecordLevel(driven, l) ==
    levels' = IF Recording /\ driven THEN Append(levels, l) ELSE levels

VariantAPcs == {"led_on", "sleep_on", "led_off", "sleep_off"}
VariantBPcs == {"is_ready", "configure", "toggle", "sleep", "done"}

Init ==
    /\ variant \in {"A", "B"}
    /\ pc = IF variant = "A" THEN "led_on" ELSE "is_ready"
    \* `int ret;` is uninitialised in Variant B; Variant A has no such local.
    /\ ret \in IF variant = "A" THEN {0} ELSE StatusCodes
    \* Variant A performs no readiness check; the controller is taken as bound.
    /\ dev_ready \in IF variant = "A" THEN {TRUE} ELSE BOOLEAN
    /\ level \in BOOLEAN
    /\ levels = << >>
    /\ log = << >>

----------------------------------------------------------------------------
\* Variant A

\* A checked led_on, as Variant B treats its calls.
LedOnChecked ==
    /\ variant = "A" /\ pc = "led_on"
    /\ \E r \in StatusCodes :
        /\ level' = IF Negative(r) THEN level ELSE ACTIVE
        /\ Record(Entry("led_on", LED_CHANNEL, r, level'))
        /\ pc' = IF Negative(r) THEN "done" ELSE "sleep_on"
    /\ UNCHANGED <<variant, ret, dev_ready, levels>>

\* led_on(leds, 2U); the result is discarded.
LedOn ==
    /\ variant = "A" /\ pc = "led_on"
    /\ \E r \in StatusCodes :
        /\ level' = IF Negative(r) THEN level ELSE ACTIVE
        /\ Record(Entry("led_on", LED_CHANNEL, r, level'))
    /\ pc' = "sleep_on"
    /\ UNCHANGED <<variant, ret, dev_ready, levels>>

\* k_sleep(K_MSEC(SLEEP_TIME_MS)) after led_on.
SleepAfterOn ==
    /\ variant = "A" /\ pc = "sleep_on"
    /\ Record(Entry("k_sleep", SLEEP_TIME_MS, 0, level))
    /\ pc' = "led_off"
    /\ UNCHANGED <<variant, ret, dev_ready, level, levels>>

\* A second led_on where led_off belongs.
LedOffAsOn ==
    /\ variant = "A" /\ pc = "led_off"
    /\ \E r \in StatusCodes :
        /\ level' = IF Negative(r) THEN level ELSE ACTIVE
        /\ Record(Entry("led_on", LED_CHANNEL, r, level'))
    /\ pc' = "sleep_off"
    /\ UNCHANGED <<variant, ret, dev_ready, levels>>

\* led_off(leds, 2U); the result is discarded.
LedOff ==
    /\ variant = "A" /\ pc = "led_off"
    /\ \E r \in StatusCodes :
        /\ level' = IF Negative(r) THEN level ELSE INACTIVE
        /\ Record(Entry("led_off", LED_CHANNEL, r, level'))
    /\ pc' = "sleep_off"
    /\ UNCHANGED <<variant, ret, dev_ready, levels>>

\* k_sleep(K_MSEC(SLEEP_TIME_MS)) after led_off; closes the while (1) body.
SleepAfterOff ==
    /\ variant = "A" /\ pc = "sleep_off"
    /\ Record(Entry("k_sleep", SLEEP_TIME_MS, 0, level))
    /\ pc' = "led_on"
    /\ UNCHANGED <<variant, ret, dev_ready, level, levels>>

----------------------------------------------------------------------------
\* Variant B

\* The readiness result is not consulted.
IsReadyIgnored ==
    /\ variant = "B" /\ pc = "is_ready"
    /\ Record(Entry("gpio_is_ready_dt", 0, IF dev_ready THEN 1 ELSE 0, level))
    /\ pc' = "configure"
    /\ UNCHANGED <<variant, ret, dev_ready, level, levels>>

\* if (!gpio_is_ready_dt(&led)) return;
IsReady ==
    /\ variant = "B" /\ pc = "is_ready"
    /\ Record(Entry("gpio_is_ready_dt", 0, IF dev_ready THEN 1 ELSE 0, level))
    /\ pc' = IF dev_ready THEN "configure" ELSE "done"
    /\ UNCHANGED <<variant, ret, dev_ready, level, levels>>

\* The configuration is retried until it succeeds.
ConfigureRetried ==
    /\ variant = "B" /\ pc = "configure"
    /\ \E r \in StatusCodes :
        /\ ret' = r
        /\ level' = IF r = 0 THEN GPIO_OUTPUT_ACTIVE ELSE level
        /\ Record(Entry("gpio_pin_configure_dt", 0, r, level'))
        /\ RecordLevel(r = 0, level')
        /\ pc' = IF Negative(ret') THEN "configure" ELSE "toggle"
    /\ UNCHANGED <<variant, dev_ready>>

\* ret = gpio_pin_configure_dt(&led, GPIO_OUTPUT_ACTIVE); if (ret < 0) return;
Configure ==
    /\ variant = "B" /\ pc = "configure"
    /\ \E r \in StatusCodes :
        /\ ret' = r
        /\ level' = IF r = 0 THEN GPIO_OUTPUT_ACTIVE ELSE level
        /\ Record(Entry("gpio_pin_configure_dt", 0, r, level'))
        /\ RecordLevel(r = 0, level')
        /\ pc' = IF Negative(ret') THEN "done" ELSE "toggle"
    /\ UNCHANGED <<variant, dev_ready>>

\* A failed toggle is slept over and retried.
ToggleRetried ==
    /\ variant = "B" /\ pc = "toggle"
    /\ \E r \in StatusCodes :
        /\ ret' = r
        /\ level' = IF r = 0 THEN ToggledLevel(level) ELSE level
        /\ Record(Entry("gpio_pin_toggle_dt", 0, r, level'))
        /\ RecordLevel(r = 0, level')
        /\ pc' = "sleep"
    /\ UNCHANGED <<variant, dev_ready>>

\* ret = gpio_pin_toggle_dt(&led); if (ret < 0) return;
Toggle ==
    /\ variant = "B" /\ pc = "toggle"
    /\ \E r \in StatusCodes :
        /\ ret' = r
        /\ level' = IF r = 0 THEN ToggledLevel(level) ELSE level
        /\ Record(Entry("gpio_pin_toggle_dt", 0, r, level'))
        /\ RecordLevel(r = 0, level')
        /\ pc' = IF Negative(ret') THEN "done" ELSE "sleep"
    /\ UNCHANGED <<variant, dev_ready>>

\* The loop body without its delay.
MsleepSkipped ==
    /\ variant = "B" /\ pc = "sleep"
    /\ pc' = "toggle"
    /\ UNCHANGED <<variant, ret, dev_ready, level, levels, log>>

\* k_msleep(SLEEP_TIME_MS); closes the while (1) body.
Msleep ==
    /\ variant = "B" /\ pc = "sleep"
    /\ Record(Entry("k_msleep", SLEEP_TIME_MS, 0, level))
    /\ pc' = "toggle"
    /\ UNCHANGED <<variant, ret, dev_ready, level, levels>>

----------------------------------------------------------------------------

Next ==
    \/ LedOn
    \/ SleepAfterOn
    \/ LedOff
    \/ SleepAfterOff
    \/ IsReady
    \/ Configure
    \/ Toggle
    \/ Msleep

Spec == Init /\ [][Next]_vars

\* One thread that is always runnable or in a timed sleep: the next step of
\* main is eventually taken.
LiveSpec == Spec /\ WF_vars(Next)

----------------------------------------------------------------------------
\* Reading the recorder

Idx == 1 .. Len(log)

\* Positions of the recorded calls of one function.
Ops(op) == {i \in Idx : log[i].op = op}

Count(op) == Cardinality(Ops(op))

IsSleep(e) == e.op \in {"k_sleep", "k_msleep"}

\* Simulated time at which the i-th recorded call is made: the sum of the
\* sleeps recorded before it.
RECURSIVE TimeAt(_)
TimeAt(i) ==
    IF i <= 1 THEN 0
    ELSE TimeAt(i - 1) + (IF IsSleep(log[i - 1]) THEN log[i - 1].arg ELSE 0)

Now == TimeAt(Len(log) + 1)

\* Ordinal of the toggle call recorded at position i.
ToggleNo(i) == Cardinality({j \in Ops("gpio_pin_toggle_dt") : j <= i})

Even(n) == n % 2 = 0

ConfigureOk == \E c \in Ops("gpio_pin_configure_dt") : ~(log[c].res < 0)

ConfigureFailed == \E c \in Ops("gpio_pin_configure_dt") : log[c].res < 0

----------------------------------------------------------------------------
\* C1: Variant B with a device that is not ready: main returns straight after
\* the readiness check; no gpio_pin_configure_dt call, no gpio_pin_toggle_dt
\* call and no sleep is ever made, and the loop is never entered.
C1_NotReadyReturnsAtOnce ==
    (variant = "B" /\ ~dev_ready) =>
        /\ pc \in {"is_ready", "done"}
        /\ Count("gpio_pin_configure_dt") = 0
        /\ Count("gpio_pin_toggle_dt") = 0
        /\ Count("k_msleep") = 0
        /\ Len(log) <= 1

C1_Witness ==
    /\ variant = "B" /\ ~dev_ready /\ pc = "done"
    /\ Len(log) = 1 /\ log[1].op = "gpio_is_ready_dt" /\ log[1].res = 0

\* C2: Variant B, device ready, gpio_pin_configure_dt returns a negative
\* status: main has returned, configure was called exactly once, and no toggle
\* call and no sleep were made.
C2_ConfigureFailureReturns ==
    (variant = "B" /\ ConfigureFailed) =>
        /\ dev_ready
        /\ pc = "done"
        /\ Count("gpio_pin_configure_dt") = 1
        /\ Count("gpio_pin_toggle_dt") = 0
        /\ Count("k_msleep") = 0

C2_Witness ==
    /\ variant = "B" /\ dev_ready /\ pc = "done"
    /\ Len(log) = 2 /\ log[2].op = "gpio_pin_configure_dt" /\ log[2].res < 0

\* C3: Variant B: a toggle call that returns a negative status is the last
\* call main makes (no sleep, no further toggle, main has returned); a toggle
\* call that returns a non-negative status is followed by one 1000 ms sleep
\* and then by another toggle call.
C3_ToggleFailureEndsLoop ==
    variant = "B" =>
        \A i \in Ops("gpio_pin_toggle_dt") :
            /\ log[i].res < 0 => (i = Len(log) /\ pc = "done")
            /\ log[i].res >= 0 =>
                /\ (i = Len(log) /\ Recording) => pc = "sleep"
                /\ i < Len(log) =>
                    /\ log[i + 1].op = "k_msleep"
                    /\ log[i + 1].arg = 1000
                /\ (i + 1 = Len(log) /\ Recording) => pc = "toggle"
                /\ i + 1 < Len(log) => log[i + 2].op = "gpio_pin_toggle_dt"

C3_Witness ==
    /\ variant = "B" /\ pc = "done"
    /\ \E i \in Ops("gpio_pin_toggle_dt") :
        /\ i = Len(log) /\ log[i].res < 0
        /\ ToggleNo(i) >= 3
        /\ log[i - 1].op = "k_msleep"

\* The cycle of Variant A's loop body.
CycleA ==
    << [op |-> "led_on", arg |-> 2], [op |-> "k_sleep", arg |-> 1000],
       [op |-> "led_off", arg |-> 2], [op |-> "k_sleep", arg |-> 1000] >>

\* C4: Variant A: the calls made are the repetition of led_on(2), sleep 1000,
\* led_off(2), sleep 1000, starting with led_on; on and off calls alternate
\* and each is followed by exactly one 1000 ms sleep.
C4_VariantACycle ==
    variant = "A" =>
        /\ \A i \in Idx :
            /\ log[i].op = CycleA[((i - 1) % 4) + 1].op
            /\ log[i].arg = CycleA[((i - 1) % 4) + 1].arg
        /\ Recording => pc = <<"led_on", "sleep_on", "led_off", "sleep_off">>[(Len(log) % 4) + 1]
        /\ levels = << >>

C4_Witness ==
    /\ variant = "A" /\ Len(log) >= 9
    /\ log[9].op = "led_on" /\ log[7].op = "led_off"

C6_ToggleParity ==
    (variant = "B" /\ ConfigureOk) =>
        /\ \A i \in Ops("gpio_pin_toggle_dt") :
            log[i].res >= 0 =>
                /\ log[i].pin = ~log[i - 1].pin
                /\ (log[i].pin = ACTIVE) <=> Even(ToggleNo(i))
                /\ i >= 4 /\ log[i - 2].op = "gpio_pin_toggle_dt" =>
                    log[i].pin = log[i - 3].pin
        /\ \A i \in Ops("k_msleep") :
            /\ log[i - 1].op = "gpio_pin_toggle_dt"
            /\ i < Len(log) => log[i + 1].op = "gpio_pin_toggle_dt"
        /\ \A i \in Ops("gpio_pin_toggle_dt") :
            i < Len(log) => log[i + 1].op # "gpio_pin_toggle_dt"
        /\ Recording =>
            ((level = ACTIVE) <=> Even(Cardinality({i \in Ops("gpio_pin_toggle_dt") : log[i].res >= 0})))

C6_Witness ==
    /\ variant = "B" /\ ConfigureOk
    /\ \E i \in Ops("gpio_pin_toggle_dt") :
        /\ ToggleNo(i) = 4 /\ log[i].res >= 0 /\ log[i].pin = ACTIVE
        /\ log[i - 2].pin = INACTIVE

\* C7: Variant B: between two successive toggle calls there is exactly one
\* sleep, of 1000 ms, so the k-th toggle call is made at simulated time
\* (k-1)*1000 ms; the call after a successful configuration is a toggle, not
\* a sleep.
C7_ToggleCadence ==
    variant = "B" =>
        /\ \A i \in Ops("gpio_pin_toggle_dt") :
            /\ TimeAt(i) = (ToggleNo(i) - 1) * 1000
            /\ \A j \in Ops("gpio_pin_toggle_dt") :
                ToggleNo(j) = ToggleNo(i) + 1 =>
                    /\ Cardinality({s \in Ops("k_msleep") : i < s /\ s < j}) = 1
                    /\ \A s \in Ops("k_msleep") : (i < s /\ s < j) => log[s].arg = 1000
        /\ \A c \in Ops("gpio_pin_configure_dt") :
            c < Len(log) => log[c + 1].op = "gpio_pin_toggle_dt"

C7_Witness ==
    /\ variant = "B"
    /\ \E i \in Ops("gpio_pin_toggle_dt") : ToggleNo(i) = 4 /\ TimeAt(i) = 3000

\* Where Variant A's control goes from each position, whatever the calls
\* return.
NextPcA ==
    [p \in VariantAPcs |->
        CASE p = "led_on" -> "sleep_on"
          [] p = "sleep_on" -> "led_off"
          [] p = "led_off" -> "sleep_off"
          [] p = "sleep_off" -> "led_on"]

\* C8: Variant A ignores the results of led_on and led_off: whatever status a
\* call returns, control moves on to the same next call, main never returns,
\* and no readiness check is made before the first led_on.
C8_ResultsIgnored ==
    /\ [](variant = "A" =>
            /\ pc \in VariantAPcs
            /\ Count("gpio_is_ready_dt") = 0
            /\ (Len(log) >= 1 => log[1].op = "led_on"))
    /\ [][variant = "A" => pc' = NextPcA[pc]]_vars

C8_Witness ==
    /\ variant = "A" /\ Len(log) >= 8
    /\ log[1].res < 0 /\ log[3].res < 0
    /\ log[5].op = "led_on" /\ log[7].op = "led_off"

\* LED calls made within the first 3000 ms of simulated time.
In3s(op) == {i \in Ops(op) : TimeAt(i) <= 3000}

\* On/off pairs within the first 3000 ms: off calls preceded by their on call.
PairsIn3s ==
    Cardinality({i \in In3s("led_off") : i >= 3 /\ log[i - 2].op = "led_on"})

\* C9: Variant A over 3000 ms of simulated time (advanced only by the
\* sleeps): 1 or 2 on/off pairs are recorded, the on calls at 0 and 2000 ms
\* and the off calls at 1000 and 3000 ms.
C9_ThreeSeconds ==
    (variant = "A" /\ Now >= 3000) =>
        /\ PairsIn3s \in {1, 2}
        /\ Cardinality(In3s("led_on")) = 2
        /\ {TimeAt(i) : i \in In3s("led_on")} = {0, 2000}
        /\ {TimeAt(i) : i \in In3s("led_off")} \subseteq {1000, 3000}
        /\ 1000 \in {TimeAt(i) : i \in In3s("led_off")}
        /\ Now > 3000 =>
            /\ PairsIn3s = 2
            /\ {TimeAt(i) : i \in In3s("led_off")} = {1000, 3000}

C9_Witness ==
    /\ variant = "A" /\ Now = 4000
    /\ PairsIn3s = 2

\* A step of Variant B on which one of the three checks reports a failure.
FailingStep ==
    \/ pc = "is_ready" /\ ~dev_ready
    \/ pc \in {"configure", "toggle"} /\ ret' < 0

\* C10: Variant A's main never returns; Variant B's main returns on a step
\* exactly when that step's readiness check failed or its configure or toggle
\* call returned a negative status; if Variant B never returns, it makes
\* infinitely many toggle calls.
C10_NoExitButFailure ==
    /\ [](variant = "A" => pc # "done")
    /\ [][variant = "B" => ((pc' = "done") <=> FailingStep)]_vars
    /\ (variant = "B" /\ [](pc # "done")) => []<><<Toggle>>_vars

C10_Witness ==
    /\ variant = "B" /\ pc = "sleep" /\ ~Recording
    /\ Count("gpio_pin_toggle_dt") >= 4

====
